---- MODULE Spec2Model ----
(***************************************************************************)
(* A model of the Effect class of src/src/effect.js: construction with     *)
(* validation and activation, init() wiring of timing, listeners and       *)
(* modifiers on the target, the quit handler, the timing predicates and    *)
(* deactivate().  JavaScript values are tagged records so that truthiness, *)
(* parseInt, isNaN and the relational operator are computed as JavaScript  *)
(* computes them.                                                          *)
(***************************************************************************)
EXTENDS Integers, Sequences, FiniteSets, TLC

VARIABLES now, eff, listeners, modifiers, calls, quits, outcome, saved

vars == <<now, eff, listeners, modifiers, calls, quits, outcome, saved>>

----------------------------------------------------------------------------
(* Bounds of the model *)

MaxClock == 3
MaxInits == 2
MaxDeactivations == 1
MaxQuits == 1

(* The value of Date.now() in the initial state *)
ClockStart == 1

----------------------------------------------------------------------------
(* JavaScript values *)

Undefined == [t |-> "undefined"]
Null == [t |-> "null"]
NaN == [t |-> "nan"]
Infinity == [t |-> "inf"]
Num(n) == [t |-> "num", n |-> n]
Str(s) == [t |-> "str", s |-> s]
Bool(b) == [t |-> "bool", b |-> b]
(* a callable; r is what a call of it returns *)
Fn(r) == [t |-> "fn", r |-> r]

(* ToBoolean, as used by !x, x || y, x ? a : b and if (x) *)
Truthy(v) ==
  CASE v.t \in {"undefined", "null", "nan"} -> FALSE
    [] v.t = "num" -> v.n # 0
    [] v.t = "str" -> v.s # ""
    [] v.t = "bool" -> v.b
    [] OTHER -> TRUE

(* a || b *)
Or(a, b) == IF Truthy(a) THEN a ELSE b

(* ToNumber on the values the model uses *)
ToNumber(v) ==
  CASE v.t = "num" -> v
    [] v.t = "inf" -> v
    [] v.t = "null" -> Num(0)
    [] v.t = "bool" -> IF v.b THEN Num(1) ELSE Num(0)
    [] OTHER -> NaN

(* the global isNaN(v) *)
IsNaN(v) == ToNumber(v) = NaN

(* parseInt(v, 10): the model's numbers are integers, its strings hold no digits *)
ParseInt(v) == IF v.t = "num" THEN v ELSE NaN

(* a < b on numbers, after ToNumber; any comparison with NaN is false *)
LessThan(a, b) ==
  LET x == ToNumber(a)
      y == ToNumber(b)
  IN  CASE x = NaN \/ y = NaN -> FALSE
        [] x = Infinity -> FALSE
        [] y = Infinity -> TRUE
        [] OTHER -> x.n < y.n

----------------------------------------------------------------------------
(* Errors *)

ReferenceError(m) == [t |-> "error", name |-> "ReferenceError", message |-> m]
TypeError(m) == [t |-> "error", name |-> "TypeError", message |-> m]

MissingId == ReferenceError("Effects must have an ID to prevent stacking.")
MissingOptions == ReferenceError("Effects must take an options object to pass to applicable functions when evaluating effects.")
MissingType == ReferenceError("Effects must have a generic effect type.")
MissingTarget == ReferenceError("Effects must have a target.")
UnsupportedTargetKind == TypeError("Effects can only target players or NPCs.")
MissingEventHandler == ReferenceError("An event was registered for an effect, but it had no handler.")
MissingModifierCallback == ReferenceError("An attribute modifier was registered but it had no callback.")
(* what evaluating an identifier that no enclosing scope binds throws *)
NotDefined(name) == ReferenceError(name \o " is not defined")

----------------------------------------------------------------------------
(* The inputs: constructor arguments and the registry's descriptors *)

Inst == {1, 2}

OptionKeys == {"duration", "started", "elapsed", "activate", "deactivate", "predicate"}

(* Object.keys(options): the keys the bag holds *)
ObjectKeys(o) == {k \in OptionKeys : o[k] # Undefined}

OptionBags ==
  [t : {"obj"},
   duration : {Undefined, Num(0), Num(-1), Num(1), Num(2), Str("long")},
   started : {Undefined, Num(0), Num(1)},
   elapsed : {Undefined, Num(2)},
   activate : {Undefined, Fn(Undefined)},
   deactivate : {Undefined, Fn(Undefined)},
   predicate : {Undefined, Fn(Bool(TRUE)), Fn(Bool(FALSE))}]

(* the bags that vary the hooks: with a duration and no saved timing, or
   without a duration, with saved timing or none *)
HookBags ==
  {o \in OptionBags :
     /\ o.duration \in {Undefined, Num(2)}
     /\ \/ o.started = Undefined /\ o.elapsed = Undefined
        \/ o.duration = Undefined /\ o.started = Num(1) /\ o.elapsed = Num(2)
     /\ o.predicate = Undefined}

(* the bags that vary the timing keys and supply no hook *)
TimedBags == {o \in OptionBags : o.activate = Undefined /\ o.deactivate = Undefined}

Player == [t |-> "obj", kind |-> "player", addEffect |-> Fn(Undefined)]
Item == [t |-> "obj", kind |-> "item", addEffect |-> Undefined]

Ids == {Undefined, Str("poison")}
Types == {Undefined, Str("dot")}
Targets == {Undefined, Item, Player}

EventNames == <<"hit", "tick">>
AttrNames == <<"strength">>

(* the mappings name -> handler over a list of names, as entry lists in
   property order (the order for..in visits them) *)
RECURSIVE Mappings(_)
Mappings(names) ==
  IF names = <<>> THEN {<<>>}
  ELSE LET rest == Mappings(Tail(names))
       IN  rest \cup {<<[name |-> Head(names), handler |-> h]>> \o m :
                        h \in {Fn(Undefined), Null}, m \in rest}

Obj(entries) == [t |-> "obj", entries |-> entries]

Descriptors ==
  [t : {"obj"},
   name : {Str("Poison")}, desc : {Str("Hurts over time")}, aura : {Str("venom")},
   events : {Undefined} \cup {Obj(m) : m \in Mappings(EventNames)},
   modifiers : {Undefined} \cup {Obj(m) : m \in Mappings(AttrNames)}]

----------------------------------------------------------------------------
(* Identifier resolution.  The module runs in strict mode, so reading an
   identifier that neither the method nor the module nor the runtime binds
   throws a ReferenceError. *)

ModuleBindings ==
  {"Effects", "_id", "_options", "_type", "_target", "_elapsed", "_started",
   "_effect", "Effect", "validate", "require", "exports", "Symbol", "Date",
   "parseInt", "isNaN", "Infinity", "Object", "ReferenceError", "TypeError"}

Bound(name, locals) == name \in locals \cup ModuleBindings

----------------------------------------------------------------------------
(* The target's capabilities: an event emitter and attribute-modifier slots *)

AllEvents == {"quit"} \cup {EventNames[k] : k \in DOMAIN EventNames}
Attrs == {AttrNames[k] : k \in DOMAIN AttrNames}

(* a modifier slot nobody has set *)
NoOwner == 0

(* target.on(event, handler): the handler is named by the instance that
   installed it *)
On(ls, event, owner) == [ls EXCEPT ![event] = Append(@, owner)]

(* target.removeListener(event) *)
RemoveListener(ls, event) == [ls EXCEPT ![event] = <<>>]

(* target.setModifier(attr, modifier) *)
SetModifier(ms, attr, owner) == [ms EXCEPT ![attr] = owner]

----------------------------------------------------------------------------
(* validate(): the first failing check's error, Undefined when all pass *)

(* a variant of validate(): the type is checked before the options *)
validateTypeFirst(id, options, type, target) ==
  IF ~Truthy(id) THEN MissingId
  ELSE IF ~Truthy(type) THEN MissingType
  ELSE IF ~Truthy(options) \/ Cardinality(ObjectKeys(options)) = 0 THEN MissingOptions
  ELSE IF ~Truthy(target) THEN MissingTarget
  ELSE IF ~Truthy(target.addEffect) THEN UnsupportedTargetKind
  ELSE Undefined

validate(id, options, type, target) ==
  IF ~Truthy(id) THEN MissingId
  ELSE IF ~Truthy(options) \/ Cardinality(ObjectKeys(options)) = 0 THEN MissingOptions
  ELSE IF ~Truthy(type) THEN MissingType
  ELSE IF ~Truthy(target) THEN MissingTarget
  ELSE IF ~Truthy(target.addEffect) THEN UnsupportedTargetKind
  ELSE Undefined

----------------------------------------------------------------------------
(* The methods of an instance e that change nothing *)

getOptions(e) == e.options

getDuration(e) == Or(ParseInt(e.options.duration), Infinity)

(* a variant of getElapsed(): without the isNaN guard the subtraction from
   an absent anchor gives NaN *)
getElapsedUnguarded(e, clock) ==
  IF e.started.t = "num" THEN Num(clock - e.started.n) ELSE NaN

getElapsed(e, clock) ==
  IF IsNaN(e.started) THEN Null ELSE Num(clock - e.started.n)

isTemporary(e) == LessThan(getDuration(e), Infinity)

(* a variant of isCurrent(): it reads the stored snapshot, not the clock *)
isCurrentFromSnapshot(e, clock) ==
  IF isTemporary(e) THEN LessThan(e.elapsed, getDuration(e)) ELSE TRUE

isCurrent(e, clock) ==
  IF isTemporary(e) THEN LessThan(getElapsed(e, clock), getDuration(e)) ELSE TRUE

checkPredicate(e) ==
  IF Truthy(e.options.predicate) THEN Truthy(e.options.predicate.r) ELSE TRUE

(* a variant of isValid(): the predicate is not consulted *)
isValidTimingOnly(e, clock) == isCurrent(e, clock)

isValid(e, clock) == isCurrent(e, clock) /\ checkPredicate(e)

getModifiers(e) == Or(e.effect.modifiers, Obj(<<>>))

getId(e) == e.id
getType(e) == e.type
getTarget(e) == e.target

(* this[_event].field, the body of getName(), getDescription() and
   getAura(): the identifier _event is evaluated first; no statement assigns
   a property under it, so were it bound the read would be of undefined *)
eventField(e, field) ==
  IF ~Bound("_event", {})
  THEN [error |-> NotDefined("_event"), value |-> Undefined]
  ELSE [error |-> TypeError("Cannot read properties of undefined"), value |-> Undefined]

Accessors ==
  {"getId", "getOptions", "getType", "getTarget", "getName", "getDescription",
   "getAura", "getModifiers"}

(* a call of the accessor a: the error it throws, else the value it returns *)
read(e, a) ==
  CASE a = "getId" -> [error |-> Undefined, value |-> getId(e)]
    [] a = "getOptions" -> [error |-> Undefined, value |-> getOptions(e)]
    [] a = "getType" -> [error |-> Undefined, value |-> getType(e)]
    [] a = "getTarget" -> [error |-> Undefined, value |-> getTarget(e)]
    [] a = "getName" -> eventField(e, "name")
    [] a = "getDescription" -> eventField(e, "desc")
    [] a = "getAura" -> eventField(e, "aura")
    [] a = "getModifiers" -> [error |-> Undefined, value |-> getModifiers(e)]

----------------------------------------------------------------------------
(* The state *)

NoEffect ==
  [st |-> "none", id |-> Undefined, type |-> Undefined, target |-> Undefined,
   options |-> Undefined, effect |-> Undefined, started |-> Undefined,
   elapsed |-> Undefined]

(* what has been called so far for an instance: Effects.get, the activate
   callbacks in call order, the deactivate callbacks, init() and deactivate() *)
NoCalls ==
  [construct |-> 0, get |-> 0, activate |-> <<>>, behaviorDeactivate |-> 0, optionsDeactivate |-> 0,
   init |-> 0, deactivate |-> 0]

(* the result of the latest call of the constructor, init(), deactivate(),
   isValid() or a read accessor *)
NoOutcome == [op |-> "none", inst |-> 0, error |-> Undefined]

NotSaved == [options |-> Undefined, inits |-> 0]

Init ==
  /\ now = ClockStart
  /\ eff = [i \in Inst |-> NoEffect]
  /\ listeners = [n \in AllEvents |-> <<>>]
  /\ modifiers = [a \in Attrs |-> NoOwner]
  /\ calls = [i \in Inst |-> NoCalls]
  /\ quits = 0
  /\ outcome = NoOutcome
  /\ saved = NotSaved

Live(i) == eff[i].st = "live"

----------------------------------------------------------------------------
(* new Effect({ id, options, type, target }), the registry answering d *)

(* a variant of activation: the option's callback runs before the behavior's *)
activationOptionsFirst(options) ==
  (IF Truthy(options.activate) THEN <<"options">> ELSE <<>>) \o <<"behavior">>

(* the activate callbacks the constructor calls, in call order *)
activation(options) ==
  <<"behavior">> \o (IF Truthy(options.activate) THEN <<"options">> ELSE <<>>)

construct(i, id, options, type, target, d) ==
  LET error == validate(id, options, type, target)
  IN  /\ eff[i].st = "none"
      /\ calls[i].construct = 0
      /\ outcome' = [op |-> "construct", inst |-> i, error |-> error,
                     args |-> [id |-> id, options |-> options, type |-> type,
                               target |-> target]]
      /\ IF error # Undefined
         THEN /\ calls' = [calls EXCEPT ![i].construct = @ + 1]
              /\ UNCHANGED eff
         ELSE /\ eff' = [eff EXCEPT ![i] =
                           [st |-> "live", id |-> id, type |-> type, target |-> target,
                            options |-> options, effect |-> d,
                            started |-> Undefined, elapsed |-> Undefined]]
              /\ calls' = [calls EXCEPT
                             ![i].construct = @ + 1,
                             ![i].get = @ + 1,
                             ![i].activate = @ \o activation(options)]
      /\ UNCHANGED <<now, listeners, modifiers, quits, saved>>

Construct ==
  /\ calls[1].construct = 0
  /\ \E id \in Ids, options \in {Undefined} \cup HookBags, type \in Types,
        target \in Targets, d \in Descriptors :
          construct(1, id, options, type, target, d)

(* the same with the arguments that pass validation and a descriptor that
   declares one event and one modifier: only the options vary *)
ConstructTimed ==
  /\ calls[1].construct = 0
  /\ \E options \in TimedBags :
    construct(1, Str("poison"), options, Str("dot"), Player,
              [t |-> "obj",
               name |-> Str("Poison"), desc |-> Str("Hurts over time"),
               aura |-> Str("venom"),
               events |-> Obj(<<[name |-> EventNames[1], handler |-> Fn(Undefined)]>>),
               modifiers |-> Obj(<<[name |-> AttrNames[1], handler |-> Fn(Undefined)]>>)])

----------------------------------------------------------------------------
(* init() *)

(* the loop over effect.events: handlers are registered in property order
   until an entry without a handler throws *)
(* a variant of the loop over effect.events: an entry without a handler is
   skipped *)
RECURSIVE wireEventsSkipping(_, _, _)
wireEventsSkipping(ls, entries, i) ==
  IF entries = <<>> THEN [listeners |-> ls, error |-> Undefined]
  ELSE IF ~Truthy(Head(entries).handler)
       THEN wireEventsSkipping(ls, Tail(entries), i)
       ELSE wireEventsSkipping(On(ls, Head(entries).name, i), Tail(entries), i)

RECURSIVE wireEvents(_, _, _)
wireEvents(ls, entries, i) ==
  IF entries = <<>> THEN [listeners |-> ls, error |-> Undefined]
  ELSE IF ~Truthy(Head(entries).handler)
       THEN [listeners |-> ls, error |-> MissingEventHandler]
       ELSE wireEvents(On(ls, Head(entries).name, i), Tail(entries), i)

(* the loop over effect.modifiers *)
RECURSIVE wireModifiers(_, _, _)
wireModifiers(ms, entries, i) ==
  IF entries = <<>> THEN [modifiers |-> ms, error |-> Undefined]
  ELSE IF ~Truthy(Head(entries).handler)
       THEN [modifiers |-> ms, error |-> MissingModifierCallback]
       ELSE wireModifiers(SetModifier(ms, Head(entries).name, i), Tail(entries), i)

(* the entries a for..in loop visits: none for undefined *)
Entries(o) == IF o = Undefined THEN <<>> ELSE o.entries

(* a variant of init()'s timing: the anchor is set without looking at
   options.duration *)
initTimingUnguarded(e, clock) ==
  [e EXCEPT !.started = Or(e.options.started, Num(clock)),
            !.elapsed = Or(e.options.elapsed, Num(0))]

(* a variant of init()'s timing: an anchor the instance already has is kept *)
initTimingKeepingAnchor(e, clock) ==
  IF Truthy(e.options.duration)
  THEN [e EXCEPT !.started = Or(e.started, Or(e.options.started, Num(clock))),
                 !.elapsed = Or(e.options.elapsed, Num(0))]
  ELSE e

(* the timing fields after the first statement of init() *)
initTiming(e, clock) ==
  IF Truthy(e.options.duration)
  THEN [e EXCEPT !.started = Or(e.options.started, Num(clock)),
                 !.elapsed = Or(e.options.elapsed, Num(0))]
  ELSE e

init(i) ==
  LET e == eff[i]
      withQuit == On(listeners, "quit", i)
      events == wireEvents(withQuit, Entries(Or(e.effect.events, Obj(<<>>))), i)
      mods == IF events.error # Undefined
              THEN [modifiers |-> modifiers, error |-> events.error]
              ELSE wireModifiers(modifiers, Entries(e.effect.modifiers), i)
  IN  /\ Live(i)
      /\ calls[i].init < MaxInits
      /\ eff' = [eff EXCEPT ![i] = initTiming(e, now)]
      /\ listeners' = events.listeners
      /\ modifiers' = mods.modifiers
      /\ calls' = [calls EXCEPT ![i].init = @ + 1]
      /\ outcome' = [op |-> "init", inst |-> i, error |-> mods.error]
      /\ UNCHANGED <<now, quits, saved>>

InitEffect == \E i \in Inst : init(i)

----------------------------------------------------------------------------
(* setElapsed() *)

(* a variant of setElapsed(): it also moves the anchor to the clock time *)
setElapsedReanchoring(e, clock) ==
  [e EXCEPT !.elapsed = getElapsed(e, clock),
            !.started = IF IsNaN(e.started) THEN @ ELSE Num(clock)]

setElapsed(e, clock) == [e EXCEPT !.elapsed = getElapsed(e, clock)]

SetElapsed ==
  \E i \in Inst :
    /\ Live(i)
    /\ eff' = [eff EXCEPT ![i] = setElapsed(eff[i], now)]
    /\ UNCHANGED <<now, listeners, modifiers, calls, quits, outcome, saved>>

----------------------------------------------------------------------------
(* The target emits quit: its quit listeners run in registration order.
   Each is the closure of init(): setElapsed(), then the behavior's
   deactivate. *)

(* a variant of the quit handler: it also calls the option's deactivate *)
quitHandlerWithOptions(s, i) ==
  [eff |-> [s.eff EXCEPT ![i] = setElapsed(s.eff[i], now)],
   calls |-> [s.calls EXCEPT ![i].behaviorDeactivate = @ + 1,
                             ![i].optionsDeactivate = @ + 1]]

(* a variant of the quit handler: it restarts the timing as init() does *)
quitHandlerRestarting(s, i) ==
  [eff |-> [s.eff EXCEPT ![i] = initTiming(s.eff[i], now)],
   calls |-> [s.calls EXCEPT ![i].behaviorDeactivate = @ + 1]]

quitHandler(s, i) ==
  [eff |-> [s.eff EXCEPT ![i] = setElapsed(s.eff[i], now)],
   calls |-> [s.calls EXCEPT ![i].behaviorDeactivate = @ + 1]]

RECURSIVE emitQuit(_, _)
emitQuit(s, hs) ==
  IF hs = <<>> THEN s ELSE emitQuit(quitHandler(s, Head(hs)), Tail(hs))

Quit ==
  LET s == emitQuit([eff |-> eff, calls |-> calls], listeners["quit"])
  IN  /\ quits < MaxQuits
      /\ listeners["quit"] # <<>>
      /\ eff' = s.eff
      /\ calls' = s.calls
      /\ quits' = quits + 1
      /\ UNCHANGED <<now, listeners, modifiers, outcome, saved>>

----------------------------------------------------------------------------
(* deactivate() *)

RECURSIVE removeListeners(_, _)
removeListeners(ls, entries) ==
  IF entries = <<>> THEN ls
  ELSE removeListeners(RemoveListener(ls, Head(entries).name), Tail(entries))

(* a variant of the statements after the callbacks: the quit handler is
   removed along with the declared events *)
teardownRemovingQuit(e, ls) ==
  [listeners |-> removeListeners(RemoveListener(ls, "quit"),
                                 Entries(Or(e.effect.events, Obj(<<>>)))),
   error |-> Undefined]

(* the statements after the two deactivate callbacks: they read the
   identifiers effect and target, which deactivate() does not declare *)
teardown(e, ls) ==
  LET locals == {"events", "event"}
      entries == Entries(Or(e.effect.events, Obj(<<>>)))
  IN  IF ~Bound("effect", locals)
      THEN [listeners |-> ls, error |-> NotDefined("effect")]
      ELSE IF entries # <<>> /\ ~Bound("target", locals)
           THEN [listeners |-> ls, error |-> NotDefined("target")]
           ELSE [listeners |-> removeListeners(ls, entries), error |-> Undefined]

deactivate(i) ==
  LET e == eff[i]
      down == teardown(e, listeners)
  IN  /\ Live(i)
      /\ calls[i].deactivate < MaxDeactivations
      /\ calls' = [calls EXCEPT
                     ![i].deactivate = @ + 1,
                     ![i].behaviorDeactivate = @ + 1,
                     ![i].optionsDeactivate =
                        IF Truthy(e.options.deactivate) THEN @ + 1 ELSE @]
      /\ listeners' = down.listeners
      /\ outcome' = [op |-> "deactivate", inst |-> i, error |-> down.error]
      /\ UNCHANGED <<now, eff, modifiers, quits, saved>>

Deactivate == \E i \in Inst : deactivate(i)

----------------------------------------------------------------------------
(* The game loop polls isValid() *)

Poll ==
  \E i \in Inst :
    /\ Live(i)
    /\ outcome' = [op |-> "isValid", inst |-> i, error |-> Undefined,
                   value |-> Bool(isValid(eff[i], now))]
    /\ UNCHANGED <<now, eff, listeners, modifiers, calls, quits, saved>>

----------------------------------------------------------------------------
(* A caller reads an accessor *)

Read ==
  \E i \in Inst, a \in Accessors :
    /\ Live(i)
    /\ outcome' = [op |-> a, inst |-> i, error |-> read(eff[i], a).error,
                   value |-> read(eff[i], a).value]
    /\ UNCHANGED <<now, eff, listeners, modifiers, calls, quits, saved>>

----------------------------------------------------------------------------
(* Save and restore: the save system snapshots the elapsed time, stores the
   options bag of instance 1 and later builds instance 2 from that bag, for
   the same id, type and target; the registry answers as for instance 1. *)

Save ==
  /\ Live(1)
  /\ calls[1].init > 0
  /\ isTemporary(eff[1])
  /\ eff[2].st = "none"
  /\ eff' = [eff EXCEPT ![1] = setElapsed(eff[1], now)]
  /\ saved' = [options |-> getOptions(eff'[1]), inits |-> calls[1].init]
  /\ UNCHANGED <<now, listeners, modifiers, calls, quits, outcome>>

Restore ==
  /\ saved # NotSaved
  /\ construct(2, eff[1].id, saved.options, eff[1].type, eff[1].target, eff[1].effect)

----------------------------------------------------------------------------
(* The clock *)

Tick ==
  /\ now < MaxClock
  /\ now' = now + 1
  /\ UNCHANGED <<eff, listeners, modifiers, calls, quits, outcome, saved>>

(* One instance through its life *)
Next ==
  \/ Construct
  \/ InitEffect
  \/ SetElapsed
  \/ Quit
  \/ Deactivate
  \/ Poll
  \/ Tick

Spec == Init /\ [][Next]_vars

(* The timing of an instance, its save and the instance restored from it *)
NextTiming ==
  \/ ConstructTimed
  \/ InitEffect
  \/ SetElapsed
  \/ Poll
  \/ Save
  \/ Restore
  \/ Tick

SpecTiming == Init /\ [][NextTiming]_vars

(* An instance through its life, a caller reading its accessors *)
NextAccess ==
  \/ Construct
  \/ InitEffect
  \/ SetElapsed
  \/ Quit
  \/ Deactivate
  \/ Read
  \/ Tick

SpecAccess == Init /\ [][NextAccess]_vars

----------------------------------------------------------------------------
(* Properties *)

(* how many of the handlers hs the instance i installed *)
Count(hs, i) == Cardinality({k \in DOMAIN hs : hs[k] = i})

(* the entries of effect.events, as init() and deactivate() read them *)
EventEntries(e) == Entries(Or(e.effect.events, Obj(<<>>)))

DeclaredEvents(e) == {EventEntries(e)[k].name : k \in DOMAIN EventEntries(e)}

(* C1: after init() followed by deactivate() the target holds no handler of
   the instance for any event name its behavior declares. *)
C1_ListenersRemovedAfterDeactivate ==
  \A i \in Inst :
    (outcome.op = "deactivate" /\ outcome.inst = i /\ calls[i].init > 0)
      => \A n \in DeclaredEvents(eff[i]) : Count(listeners[n], i) = 0

(* C2: deactivate() on a constructed effect whose init() was never called
   completes normally: it raises no error. *)
C2_DeactivateBeforeInitCompletes ==
  \A i \in Inst :
    (outcome.op = "deactivate" /\ outcome.inst = i /\ calls[i].init = 0)
      => outcome.error = Undefined

(* C3: an effect rebuilt from the options bag read after setElapsed(), once
   init() has run on it, gives the isCurrent() verdict the original gives at
   the same clock time (the original not having been initialised again since
   the save). *)
C3_RestoredVerdictEqualsOriginal ==
  (Live(2) /\ calls[2].init = 1 /\ calls[1].init = saved.inits)
    => (isCurrent(eff[2], now) <=> isCurrent(eff[1], now))

(* C4: when options.duration is set (to a value init() takes as a
   duration), init() makes started the supplied options.started, for every
   supplied value, and the clock time only when none is supplied; and
   elapsed the supplied options.elapsed, else 0. *)
C4_InitTakesSuppliedTiming ==
  [][\A i \in Inst :
       (Live(i) /\ calls'[i].init = calls[i].init + 1
          /\ Truthy(eff[i].options.duration))
         => /\ eff'[i].started =
                 (IF eff[i].options.started # Undefined
                  THEN eff[i].options.started ELSE Num(now))
            /\ eff'[i].elapsed =
                 (IF eff[i].options.elapsed # Undefined
                  THEN eff[i].options.elapsed ELSE Num(0))]_vars

(* C5: for a temporary effect with a timing anchor, isCurrent() at the clock
   time now is true exactly when now - started is strictly less than the
   duration, whatever the stored elapsed snapshot holds; and init() on an
   effect with a positive duration and no options.started anchors it at the
   clock time of the call, so that isCurrent() is true right after it (and,
   by the first part, false once the clock is a duration or more past it). *)
C5_IsCurrentIsLiveElapsedBelowDuration ==
  /\ [](\A i \in Inst :
          (Live(i) /\ isTemporary(eff[i]) /\ eff[i].started # Undefined)
            => (isCurrent(eff[i], now)
                  <=> now - eff[i].started.n < eff[i].options.duration.n))
  /\ [][\A i \in Inst :
          (/\ Live(i) /\ calls'[i].init = calls[i].init + 1
           /\ isTemporary(eff[i]) /\ eff[i].options.duration.n > 0
           /\ eff[i].options.started = Undefined)
            => eff'[i].started = Num(now) /\ isCurrent(eff'[i], now')]_vars

(* an expired effect whose stored snapshot is still below its duration *)
C5_Witness ==
  \E i \in Inst :
    /\ Live(i) /\ isTemporary(eff[i]) /\ eff[i].started # Undefined
    /\ calls[i].init > 0
    /\ eff[i].elapsed = Num(0)
    /\ now - eff[i].started.n >= eff[i].options.duration.n
    /\ ~isCurrent(eff[i], now)

(* the five checks of construction in their order, and whether each, taken
   alone, fails on the arguments a *)
ValidationErrors ==
  <<MissingId, MissingOptions, MissingType, MissingTarget, UnsupportedTargetKind>>

CheckFails(k, a) ==
  CASE k = 1 -> a.id = Undefined
    [] k = 2 -> a.options = Undefined \/ ObjectKeys(a.options) = {}
    [] k = 3 -> a.type = Undefined
    [] k = 4 -> a.target = Undefined
    [] k = 5 -> a.target = Undefined \/ a.target.addEffect = Undefined

FailingChecks(a) == {k \in 1..5 : CheckFails(k, a)}

Least(S) == CHOOSE k \in S : \A j \in S : k <= j

(* C6: construction raises the error of the earliest failing check, the five
   errors are pairwise distinct, and on a failure the registry is not
   consulted, no activate callback runs and no instance exists; it succeeds
   when no check fails. *)
C6_FirstFailingCheckDecides ==
  /\ \A j, k \in 1..5 : j # k => ValidationErrors[j] # ValidationErrors[k]
  /\ outcome.op = "construct" =>
       LET failing == FailingChecks(outcome.args)
           i == outcome.inst
       IN  IF failing = {}
           THEN outcome.error = Undefined /\ Live(i)
           ELSE /\ outcome.error = ValidationErrors[Least(failing)]
                /\ ~Live(i)
                /\ calls[i].get = 0
                /\ calls[i].activate = <<>>

(* a failed construction on which several checks fail, the options first *)
C6_Witness ==
  /\ outcome.op = "construct"
  /\ Cardinality(FailingChecks(outcome.args)) >= 3
  /\ Least(FailingChecks(outcome.args)) = 2
  /\ outcome.error = MissingOptions

(* C7: in every state of an instance's life the behavior's activate has run
   exactly once and the option's activate once if supplied and never
   otherwise, the behavior's first; no activate runs without an instance. *)
C7_ActivatedOnceAtConstruction ==
  \A i \in Inst :
    IF Live(i)
    THEN /\ Count(calls[i].activate, "behavior") = 1
         /\ Count(calls[i].activate, "options") =
              (IF eff[i].options.activate # Undefined THEN 1 ELSE 0)
         /\ Head(calls[i].activate) = "behavior"
         /\ Len(calls[i].activate) <= 2
    ELSE calls[i].activate = <<>>

(* an instance with the activate option after two init(), a quit and a
   deactivate() *)
C7_Witness ==
  /\ Live(1)
  /\ eff[1].options.activate # Undefined
  /\ calls[1].init >= 2
  /\ calls[1].deactivate >= 1
  /\ quits >= 1

HasMissingHandler(entries) == \E k \in DOMAIN entries : ~Truthy(entries[k].handler)

(* C8 as claimed: init() raises the missing-event-handler error whenever a
   declared event has no handler, the missing-modifier-callback error
   whenever a declared modifier has no callback, and nothing otherwise. *)
C8_InitErrorsAsClaimed ==
  outcome.op = "init" =>
    LET e == eff[outcome.inst]
        badEvent == HasMissingHandler(EventEntries(e))
        badModifier == HasMissingHandler(Entries(e.effect.modifiers))
    IN  /\ badEvent => outcome.error = MissingEventHandler
        /\ badModifier => outcome.error = MissingModifierCallback
        /\ (~badEvent /\ ~badModifier) => outcome.error = Undefined

(* C8 amended: init() raises the missing-event-handler error whenever a
   declared event has no handler; the missing-modifier-callback error
   whenever a declared modifier has no callback and every declared event has
   a handler; and no error when every declared entry has one. *)
C8_InitErrorsEventsFirst ==
  outcome.op = "init" =>
    LET e == eff[outcome.inst]
        badEvent == HasMissingHandler(EventEntries(e))
        badModifier == HasMissingHandler(Entries(e.effect.modifiers))
    IN  /\ badEvent => outcome.error = MissingEventHandler
        /\ (badModifier /\ ~badEvent) => outcome.error = MissingModifierCallback
        /\ (~badEvent /\ ~badModifier) => outcome.error = Undefined

(* init() has failed on a modifier without a callback, and on an event
   without a handler declared after one that has a handler *)
C8_Witness ==
  /\ outcome.op = "init"
  /\ LET e == eff[outcome.inst]
     IN  \/ /\ outcome.error = MissingModifierCallback
            /\ DeclaredEvents(e) # {}
         \/ /\ outcome.error = MissingEventHandler
            /\ Len(EventEntries(e)) = 2
            /\ Truthy(EventEntries(e)[1].handler)
            /\ HasMissingHandler(Entries(e.effect.modifiers))

(* C9: the target never carries more than one quit handler of an instance. *)
C9_AtMostOneQuitHandler ==
  \A i \in Inst : Count(listeners["quit"], i) <= 1

(* C10: a quit event stores, for each instance with a quit handler on the
   target, the live elapsed time (now - started, the null sentinel without
   an anchor) in its elapsed field and calls the behavior's deactivate once
   per handler; it calls no option's deactivate, leaves every listener and
   modifier of the target in place and changes nothing else. *)
C10_QuitHandlerFrame ==
  [][quits' = quits + 1 =>
       /\ listeners' = listeners
       /\ modifiers' = modifiers
       /\ now' = now
       /\ \A i \in Inst :
            LET n == Count(listeners["quit"], i)
            IN  /\ calls'[i] = [calls[i] EXCEPT !.behaviorDeactivate = @ + n]
                /\ eff'[i] =
                     IF n = 0 THEN eff[i]
                     ELSE [eff[i] EXCEPT !.elapsed =
                             IF eff[i].started = Undefined THEN Null
                             ELSE Num(now - eff[i].started.n)]]_vars

(* after a quit on an initialised temporary effect with the deactivate
   option: the live elapsed time is stored, the behavior's deactivate has
   run, the option's has not, the listeners and the modifier are in place *)
C10_Witness ==
  /\ quits = 1
  /\ Live(1)
  /\ eff[1].options.deactivate # Undefined
  /\ eff[1].started # Undefined
  /\ now > eff[1].started.n
  /\ eff[1].elapsed = Num(now - eff[1].started.n)
  /\ calls[1].behaviorDeactivate = 1
  /\ calls[1].optionsDeactivate = 0
  /\ Count(listeners["quit"], 1) = 1
  /\ listeners["hit"] # <<>>
  /\ modifiers["strength"] = 1

(* C11: isValid() is true exactly when isCurrent() is true and the predicate,
   if one is configured, returns true; so it is false whenever the predicate
   returns false, at every clock time and for permanent effects too; and a
   poll returns that value. *)
C11_IsValidIsCurrentAndPredicate ==
  /\ [](\A i \in Inst :
          Live(i) =>
            LET p == eff[i].options.predicate
            IN  /\ isValid(eff[i], now)
                     <=> (isCurrent(eff[i], now) /\ (p = Undefined \/ p.r = Bool(TRUE)))
                /\ (p # Undefined /\ p.r = Bool(FALSE)) => ~isValid(eff[i], now))
  /\ [][(outcome'.op = "isValid" /\ outcome' # outcome) =>
          LET e == eff[outcome'.inst]
              p == e.options.predicate
          IN  outcome'.value =
                Bool(isCurrent(e, now) /\ (p = Undefined \/ p.r = Bool(TRUE)))]_vars

(* a permanent effect, current at a later clock time, whose predicate
   returns false: the poll has answered false *)
C11_Witness ==
  \E i \in Inst :
    /\ Live(i)
    /\ eff[i].options.duration = Undefined
    /\ eff[i].options.predicate = Fn(Bool(FALSE))
    /\ calls[i].init > 0
    /\ now > ClockStart
    /\ isCurrent(eff[i], now)
    /\ outcome.op = "isValid" /\ outcome.inst = i /\ outcome.value = Bool(FALSE)

(* C12: an effect whose options hold no duration is, in every state of its
   life, not temporary and current, and getElapsed() returns null, also when
   options.started or options.elapsed are supplied. *)
C12_NoDurationIsPermanent ==
  \A i \in Inst :
    (Live(i) /\ eff[i].options.duration = Undefined)
      => /\ ~isTemporary(eff[i])
         /\ isCurrent(eff[i], now)
         /\ getElapsed(eff[i], now) = Null

(* such an effect, built with saved timing, after init(), a quit (whose
   handler ran setElapsed()) and clock advances *)
C12_Witness ==
  /\ Live(1)
  /\ eff[1].options.duration = Undefined
  /\ eff[1].options.started = Num(1) /\ eff[1].options.elapsed = Num(2)
  /\ calls[1].init >= 1
  /\ quits >= 1
  /\ eff[1].elapsed = Null
  /\ now >= ClockStart + 2

(* C13: in every state of an instance started is set exactly when
   options.duration is present: an effect with a duration has an anchor and
   a permanent effect has none. *)
C13_AnchorIffDurationPresent ==
  \A i \in Inst :
    Live(i) =>
      /\ eff[i].started # Undefined <=> eff[i].options.duration # Undefined
      /\ ~isTemporary(eff[i]) => eff[i].started = Undefined

(* C14: started and elapsed change only in init() and setElapsed(), the quit
   handler changing elapsed only through setElapsed(): a step that changes
   started is a call of init(); a step that changes elapsed is a call of
   init(), or stores getElapsed() in a call of setElapsed() or in the quit
   handler of the instance; construction, the isValid() poll, deactivate()
   and the clock leave both fields as they are. *)
C14_TimingFieldsFrame ==
  [][\A i \in Inst :
       LET initStep == calls'[i].init = calls[i].init + 1
           quitStep == quits' = quits + 1 /\ Count(listeners["quit"], i) > 0
           setStep  == /\ calls' = calls /\ quits' = quits /\ now' = now
                       /\ outcome' = outcome /\ listeners' = listeners
       IN  /\ eff'[i].started # eff[i].started => initStep
           /\ eff'[i].elapsed # eff[i].elapsed
                => \/ initStep
                   \/ /\ quitStep \/ setStep
                      /\ eff'[i].elapsed = getElapsed(eff[i], now)
           /\ (\/ calls'[i].construct # calls[i].construct
               \/ calls'[i].deactivate # calls[i].deactivate
               \/ outcome'.op = "isValid" /\ outcome' # outcome
               \/ now' # now)
                => /\ eff'[i].started = eff[i].started
                   /\ eff'[i].elapsed = eff[i].elapsed]_vars

(* setElapsed() has stored a positive elapsed time, the anchor being where
   init() put it, and deactivate() and a poll have run since *)
C14_Witness ==
  /\ Live(1)
  /\ calls[1].init = 1
  /\ calls[1].deactivate = 1
  /\ eff[1].started = Num(ClockStart)
  /\ eff[1].elapsed = Num(now - ClockStart)
  /\ now > ClockStart
  /\ outcome.op = "isValid"

(* C15: getDuration() is the integer parse of options.duration for every
   numeric duration, 0 and negative values included, and infinity only when
   the duration is absent or non-numeric; isTemporary() is true exactly when
   options.duration parses to an integer. *)
C15_DurationIsIntegerParse ==
  \A i \in Inst :
    Live(i) =>
      LET d == eff[i].options.duration
      IN  /\ d.t = "num" => getDuration(eff[i]) = d
          /\ getDuration(eff[i]) = Infinity => d.t # "num"
          /\ isTemporary(eff[i]) <=> ParseInt(d) # NaN

(* C16: after construction and any later operations every read accessor
   returns without raising: getId(), getOptions(), getType() and getTarget()
   the construction values, getName(), getDescription() and getAura() the
   name, desc and aura of the behavior descriptor, getModifiers() the
   behavior's modifier mapping or an empty mapping, never null or undefined. *)
C16_AccessorsReturnWithoutRaising ==
  \A i \in Inst :
    (Live(i) /\ outcome.inst = i /\ outcome.op \in Accessors)
      => /\ outcome.error = Undefined
         /\ outcome.value =
              CASE outcome.op = "getId" -> eff[i].id
                [] outcome.op = "getOptions" -> eff[i].options
                [] outcome.op = "getType" -> eff[i].type
                [] outcome.op = "getTarget" -> eff[i].target
                [] outcome.op = "getName" -> eff[i].effect.name
                [] outcome.op = "getDescription" -> eff[i].effect.desc
                [] outcome.op = "getAura" -> eff[i].effect.aura
                [] outcome.op = "getModifiers" ->
                     IF eff[i].effect.modifiers = Undefined
                     THEN Obj(<<>>) ELSE eff[i].effect.modifiers
         /\ outcome.op = "getModifiers" => outcome.value \notin {Null, Undefined}

(* C17 as claimed: a temporary effect on which init() has not been called
   has no anchor, getElapsed() returns null and isCurrent() returns true at
   every clock time. *)
C17_UninitialisedNeverExpires ==
  \A i \in Inst :
    (Live(i) /\ isTemporary(eff[i]) /\ calls[i].init = 0)
      => /\ eff[i].started = Undefined
         /\ getElapsed(eff[i], now) = Null
         /\ isCurrent(eff[i], now)

(* C17 amended: a temporary effect on which init() has not been called has
   no anchor and getElapsed() returns null at every clock time; isCurrent()
   compares that null, as 0, with the duration, so at every clock time it
   returns true when the duration is positive and false when it is
   negative. *)
C17_UninitialisedCurrentIffPositiveDuration ==
  \A i \in Inst :
    (Live(i) /\ isTemporary(eff[i]) /\ calls[i].init = 0)
      => /\ eff[i].started = Undefined
         /\ getElapsed(eff[i], now) = Null
         /\ isCurrent(eff[i], now) <=> eff[i].options.duration.n > 0

(* a temporary effect, never initialised, still current when more clock time
   than its duration has passed since construction *)
C17_Witness ==
  \E i \in Inst :
    /\ Live(i)
    /\ isTemporary(eff[i])
    /\ calls[i].init = 0
    /\ eff[i].options.duration.n > 0
    /\ now - ClockStart > eff[i].options.duration.n
    /\ isCurrent(eff[i], now)

(* C18: expiry is permanent: when isCurrent() is false for an initialised
   temporary effect, it is false again after any step that is not a call of
   init() on it (setElapsed(), a quit event, a poll, deactivate(), the clock
   moving on), and a poll of isValid() in that state answers false. *)
C18_ExpiryIsPermanent ==
  [][\A i \in Inst :
       (/\ Live(i) /\ calls[i].init > 0 /\ isTemporary(eff[i])
        /\ ~isCurrent(eff[i], now)
        /\ calls'[i].init = calls[i].init)
         => /\ now' >= now
            /\ ~isCurrent(eff'[i], now')
            /\ (outcome'.op = "isValid" /\ outcome'.inst = i /\ outcome' # outcome)
                 => outcome'.value = Bool(FALSE)]_vars

(* an expired effect, still expired after setElapsed() stored the elapsed
   time, a quit event, deactivate() and a poll *)
C18_Witness ==
  /\ Live(1)
  /\ calls[1].init = 1
  /\ isTemporary(eff[1])
  /\ ~isCurrent(eff[1], now)
  /\ eff[1].elapsed = getElapsed(eff[1], now)
  /\ quits >= 1
  /\ calls[1].deactivate >= 1
  /\ outcome.op = "isValid"
  /\ outcome.value = Bool(FALSE)

(* C19 as claimed (a duration being a value init() takes as one): each call
   of init() on an effect with a duration and no options.started makes
   started the clock time of the call and elapsed options.elapsed or 0,
   whatever setElapsed() stored; and an effect that had expired is current
   after a second init(). *)
C19_EveryInitRestartsTheClock ==
  [][\A i \in Inst :
       (/\ Live(i) /\ calls'[i].init = calls[i].init + 1
        /\ Truthy(eff[i].options.duration)
        /\ eff[i].options.started = Undefined)
         => /\ eff'[i].started = Num(now)
            /\ eff'[i].elapsed = Or(eff[i].options.elapsed, Num(0))
            /\ (/\ calls[i].init > 0 /\ isTemporary(eff[i])
                /\ ~isCurrent(eff[i], now))
                 => isCurrent(eff'[i], now')]_vars

(* C19 amended: each such call of init() makes started the clock time of the
   call and elapsed options.elapsed or 0, whatever setElapsed() stored; right
   after it a temporary effect is current exactly when its duration is
   positive, so an expired effect with a positive duration is current
   again. *)
C19_EveryInitRestartsPositiveDurations ==
  [][\A i \in Inst :
       (/\ Live(i) /\ calls'[i].init = calls[i].init + 1
        /\ Truthy(eff[i].options.duration)
        /\ eff[i].options.started = Undefined)
         => /\ eff'[i].started = Num(now)
            /\ eff'[i].elapsed = Or(eff[i].options.elapsed, Num(0))
            /\ isTemporary(eff[i])
                 => (isCurrent(eff'[i], now') <=> eff[i].options.duration.n > 0)
            /\ (/\ calls[i].init > 0 /\ isTemporary(eff[i])
                /\ ~isCurrent(eff[i], now) /\ eff[i].options.duration.n > 0)
                 => isCurrent(eff'[i], now')]_vars

(* after a second init(), later on the clock than the first: the anchor is
   the clock time, the stored elapsed time is 0 again, the effect is current *)
C19_Witness ==
  /\ Live(1)
  /\ calls[1].init = 2
  /\ eff[1].options.duration = Num(1)
  /\ eff[1].options.started = Undefined
  /\ eff[1].options.elapsed = Undefined
  /\ saved.inits = 1
  /\ now > ClockStart
  /\ eff[1].started = Num(now)
  /\ eff[1].elapsed = Num(0)
  /\ isCurrent(eff[1], now)

(* C20: deactivate() leaves the quit handlers init() installed on the
   target; a quit event after deactivate() still runs setElapsed() and the
   behavior's deactivate for each of them; and once init(), deactivate() and
   a quit event have each happened once for an instance, its behavior's
   deactivate has run twice. *)
C20_QuitAfterDeactivateRunsAgain ==
  /\ [][\A i \in Inst :
          calls'[i].deactivate = calls[i].deactivate + 1
            => /\ Count(listeners'["quit"], i) = Count(listeners["quit"], i)
               /\ calls'[i].behaviorDeactivate = calls[i].behaviorDeactivate + 1]_vars
  /\ [][\A i \in Inst :
          (/\ quits' = quits + 1
           /\ calls[i].deactivate > 0
           /\ Count(listeners["quit"], i) > 0)
            => /\ eff'[i].elapsed = getElapsed(eff[i], now)
               /\ calls'[i].behaviorDeactivate =
                    calls[i].behaviorDeactivate + Count(listeners["quit"], i)]_vars
  /\ [](\A i \in Inst :
          (calls[i].init = 1 /\ calls[i].deactivate = 1 /\ quits = 1)
            => calls[i].behaviorDeactivate = 2)

(* init(), then deactivate(), and a quit event: the quit handler is still
   installed and the behavior's deactivate has run twice *)
C20_Witness ==
  /\ Live(1)
  /\ calls[1].init = 1
  /\ calls[1].deactivate = 1
  /\ outcome.op = "deactivate"
  /\ quits = 1
  /\ Count(listeners["quit"], 1) = 1
  /\ calls[1].behaviorDeactivate = 2

====
